---- MODULE Spec2Model ----
(***************************************************************************)
(* The rasterize -> reorder -> emit pipeline of WorkingPDFPrinter          *)
(* (src/files (3)/pdf_printer.py) and the way print_server.py drives it.   *)
(* Every printer instance p has its own queues, flags, locks, counters and *)
(* device context; the threads of an instance are its coordinator          *)
(* (print_pdf), its convert workers and its print workers.                 *)
(***************************************************************************)
EXTENDS Integers, Sequences, FiniteSets, Bags, TLC

\* ---------------------------------------------------------------- bounds
MaxPages == 3          \* pages of a document (pdfinfo 'Pages')
MaxThreads == 2        \* the `threads` argument of the constructor
MaxFolderPages == 2    \* pages of a document printed by print_folder
MaxServerPages == 2    \* pages of a document printed through the server
MaxFaults == 2         \* device calls that fail in one run
MaxDim == 4            \* pixels of an image side and of a printable side

\* Printer instances: one per request of the print server.
Printers == {1, 2}
\* print_pdf calls made on one instance (print_folder makes several).
Jobs == {1, 2}
\* The values job_id can take: int(time.time() * 1000) at the requests, up
\* to the order of the clock readings (two requests read at most two values).
JobIds == 1 .. Cardinality(Printers)

None == "None"
DC == "DC"
MAIN == <<"main">>
CW == <<"cw">>
PW(j) == <<"pw", j>>
FREE == <<"free">>
\* No rectangle drawn yet; no record under a job_id.
NoRect == <<>>
NoJob == [status |-> "absent", file_path |-> 0]

VARIABLES
    threads,          \* p -> self.threads
    printer_name,     \* p -> self.printer_name
    requests,         \* p -> documents the caller has still to pass to print_pdf
    faults,           \* p -> device calls the device may still fail in this run
    main_pc,          \* p -> position of the caller / print_pdf
    page,             \* p -> loop variable of the queueing loop in print_pdf
    job_no,           \* p -> number of print_pdf calls started so far
    total,            \* p -> self.total
    converted,        \* p -> self.converted
    printed,          \* p -> self.printed
    job_queue,        \* p -> self.job_queue, FIFO of page tasks
    job_unfinished,   \* p -> job_queue.unfinished_tasks
    image_queue,      \* p -> self.image_queue, a priority queue of (page, image)
    image_unfinished, \* p -> image_queue.unfinished_tasks
    stop_flag,        \* p -> self.stop_flag
    print_lock,       \* p -> holder of self.print_lock, or FREE
    stats_lock,       \* p -> holder of self.stats_lock, or FREE
    printer_dc,       \* p -> self.printer_dc: None or a device context
    cw,               \* p -> the live convert workers: a bag of (position, task, job)
    pw,               \* p -> job -> the print worker started by that job
    \* What has happened since the current print_pdf call began:
    device_calls,     \* p -> device calls issued, with their outcome
    handed,           \* p -> images handed to _print_image_working
    conv_failed,      \* p -> page tasks whose conversion failed
    emit_failed,      \* p -> pages whose emission raised
    rasterized,       \* p -> bag of the page tasks passed to convert_from_path
    \* The print server's view of the request that instance p serves:
    srv_pc,           \* p -> position of the request / its background thread
    job_id,           \* p -> the job_id given to the request, 0 before that
    active_jobs,      \* job_id -> the job record, or NoJob
    \* Drawing:
    size,             \* p -> image.size and the printer's HORZRES, VERTRES
    rect,             \* p -> the rectangle of the last dib.draw, or NoRect
    panel             \* the control panel: its fields, buttons and start thread

envv  == <<threads, printer_name, requests>>
mainv == <<main_pc, page, job_no>>
statv == <<total, converted, printed>>
jqv   == <<job_queue, job_unfinished>>
iqv   == <<image_queue, image_unfinished>>
devv  == <<printer_dc, device_calls>>
srvv  == <<srv_pc, job_id, active_jobs>>
gdiv  == <<size, rect>>
pipev == <<envv, faults, mainv, statv, jqv, iqv, stop_flag, print_lock, devv, cw, pw,
           handed, conv_failed, emit_failed, rasterized, srvv, gdiv, stats_lock>>
vars  == <<pipev, panel>>

\* ------------------------------------------------------------- helpers
\* A page task (pdf_path, page_num, total) of job j; an image is the raster
\* of one page of one job's document.
Task(j, n) == [job |-> j, page |-> n]

\* PriorityQueue.get: the entry with the smallest page number.
MinImage(q) == CHOOSE i \in q : \A k \in q : i.page <= k.page

\* buffer[page_num] = image (a dict assignment: an existing key is overwritten)
BufferPut(buffer, img) == {b \in buffer : b.page /= img.page} \cup {img}

\* Outcomes a device call can have: it returns (TRUE) or raises (FALSE).
Outcomes(p) == IF faults[p] = 0 THEN {TRUE} ELSE {TRUE, FALSE}

\* The fault budget after a call with outcome ok.
Spend(p, ok) == [faults EXCEPT ![p] = IF ok THEN @ ELSE @ - 1]

Call(name, ok) == [call |-> name, ok |-> ok]

\* A convert worker at the top of its loop, started by the print_pdf call
\* number j. The workers of a call differ only in the worker_id they print,
\* so an instance's workers are kept as a bag.
IdleCW(j) == [pc |-> "check", task |-> Task(0, 0), job |-> j]
Copies(x, n) == IF n > 0 THEN [e \in {x} |-> n] ELSE EmptyBag
NoPW == [pc |-> "none", next_page |-> 0, buffer |-> {}, img |-> Task(0, 0)]

\* A document path handed to print_pdf: a PDF of `pages` pages, a path that
\* does not exist, or a file pdfinfo cannot read.
Pdf(n) == [kind |-> "pdf", pages |-> n]
Missing == [kind |-> "missing", pages |-> 0]
Unreadable == [kind |-> "unreadable", pages |-> 0]
Documents(maxPages) == {Pdf(n) : n \in 1 .. maxPages} \cup {Missing, Unreadable}

\* A get that leaves the task in the queue.
QueuePeek(q) == q

\* job_queue.get: the task at the head leaves the queue.
QueueGet(q) == Tail(q)

\* The sizes the emitter works with: image.size and the printable area.
Size(iw, ih, w, h) ==
    [img_width |-> iw, img_height |-> ih, printer_width |-> w, printer_height |-> h]
Sizes(maxDim) ==
    {Size(iw, ih, w, h) : iw \in 1 .. maxDim, ih \in 1 .. maxDim,
                          w \in 1 .. maxDim, h \in 1 .. maxDim}
\* The sizes of the runs in which the drawing is not looked at: a portrait
\* image on a square page.
PortraitOnSquare == Size(1, 2, 2, 2)

RECURSIVE GCD(_, _)
GCD(a, b) == IF b = 0 THEN a ELSE GCD(b, a % b)
RECURSIVE IsPowerOfTwo(_)
IsPowerOfTwo(n) == n = 1 \/ (n % 2 = 0 /\ IsPowerOfTwo(n \div 2))

\* num / den is a binary fraction: the float division gives it exactly.
ExactQuotient(num, den) == IsPowerOfTwo(den \div GCD(num, den))

\* int(n * (num / den)) in float arithmetic. The quotient is rounded to a
\* double and so is the product; the error is far below 1/den, so the result
\* is the floor of n * num / den, except that a product which is a whole
\* number in exact arithmetic may come out just below it and lose 1.
Scaled(n, num, den) ==
    LET q == (n * num) \div den IN
      IF (n * num) % den = 0 /\ ~ExactQuotient(num, den) THEN {q - 1, q} ELSE {q}

\* A scale that takes the larger of the two ratios.
WidthBoundMax(sz) ==
    sz.printer_width * sz.img_height >= sz.printer_height * sz.img_width

\* scale = min(printer_width / img_width, printer_height / img_height) is
\* the first ratio: printer_width / img_width <= printer_height / img_height.
WidthBound(sz) ==
    sz.printer_width * sz.img_height <= sz.printer_height * sz.img_width

\* The rectangles (x, y, x + new_width, y + new_height) handed to dib.draw.
FitRects(sz) ==
    LET num == IF WidthBound(sz) THEN sz.printer_width ELSE sz.printer_height
        den == IF WidthBound(sz) THEN sz.img_width ELSE sz.img_height
    IN  {<<(sz.printer_width - nw) \div 2, (sz.printer_height - nh) \div 2,
           (sz.printer_width - nw) \div 2 + nw, (sz.printer_height - nh) \div 2 + nh>> :
            nw \in Scaled(sz.img_width, num, den),
            nh \in Scaled(sz.img_height, num, den)}

\* ---------------------------------------------------------------- Init
\* WorkingPDFPrinter.__init__ for every instance; `calls` are the sequences
\* of documents the caller may pass to each instance, `thr` the thread
\* counts it may configure, `dev` the numbers of device calls that may fail
\* (an instance that is never used is given one thread and no faults).
InitWith(calls, thr, dev) ==
    /\ requests \in calls
    /\ printer_name = [p \in Printers |-> "best"]
    /\ \E t \in thr :
         threads = [p \in Printers |-> IF requests[p] = <<>> THEN 1 ELSE t[p]]
    /\ \E d \in dev :
         faults = [p \in Printers |-> IF requests[p] = <<>> THEN 0 ELSE d[p]]
    /\ main_pc = [p \in Printers |-> "idle"]
    /\ page = [p \in Printers |-> 0]
    /\ job_no = [p \in Printers |-> 0]
    /\ total = [p \in Printers |-> 0]
    /\ converted = [p \in Printers |-> 0]
    /\ printed = [p \in Printers |-> 0]
    /\ job_queue = [p \in Printers |-> <<>>]
    /\ job_unfinished = [p \in Printers |-> 0]
    /\ image_queue = [p \in Printers |-> {}]
    /\ image_unfinished = [p \in Printers |-> 0]
    /\ stop_flag = [p \in Printers |-> FALSE]
    /\ print_lock = [p \in Printers |-> FREE]
    /\ stats_lock = [p \in Printers |-> FREE]
    /\ printer_dc = [p \in Printers |-> None]
    /\ cw = [p \in Printers |-> EmptyBag]
    /\ pw = [p \in Printers |-> [j \in Jobs |-> NoPW]]
    /\ device_calls = [p \in Printers |-> <<>>]
    /\ handed = [p \in Printers |-> <<>>]
    /\ conv_failed = [p \in Printers |-> {}]
    /\ emit_failed = [p \in Printers |-> {}]
    /\ rasterized = [p \in Printers |-> EmptyBag]

\* ControlPanel.__init__ and setup_ui: nothing started, START enabled, STOP
\* disabled, the window open. print_server_process and whatsapp_bot_process
\* are None or the state of the child they refer to; start_pc is the position
\* of the thread running _start_servers_thread; orphans are the kinds of child
\* still running that no field refers to any more; last_handler is the last
\* of stop_servers and on_closing to have completed.
PanelInit ==
    [is_running |-> FALSE,
     print_server_process |-> None,
     whatsapp_bot_process |-> None,
     start_button |-> "normal",
     stop_button |-> "disabled",
     status_label |-> "Stopped",
     start_pc |-> "idle",
     window |-> "open",
     orphans |-> {},
     last_handler |-> "none"]

\* Who calls print_pdf and what is printed: `caller` is "direct" for main()
\* and print_folder and "request" for a POST /print-async not yet handled;
\* `sizes` are the image and page sizes the run may meet.
InitEnv(sizes, caller) ==
    /\ srv_pc = [p \in Printers |-> caller]
    /\ job_id = [p \in Printers |-> 0]
    /\ active_jobs = [i \in JobIds |-> NoJob]
    /\ \E sz \in sizes : size = [p \in Printers |-> sz]
    /\ rect = [p \in Printers |-> NoRect]
    /\ panel = PanelInit

\* One instance, one print_pdf call (main() with a file path).
Init ==
    /\ InitWith({[p \in Printers |-> IF p = 1 THEN <<d>> ELSE <<>>] :
                    d \in Documents(MaxPages)},
                [Printers -> 0 .. MaxThreads], [Printers -> {MaxFaults}])
    /\ InitEnv({PortraitOnSquare}, "direct")

\* One instance, print_pdf called for two documents in a row (print_folder).
InitFolder ==
    /\ InitWith({[p \in Printers |-> IF p = 1 THEN <<d, e>> ELSE <<>>] :
                    d \in Documents(MaxFolderPages),
                    e \in Documents(MaxFolderPages)},
                [Printers -> {1}], [Printers -> {1}])
    /\ InitEnv({PortraitOnSquare}, "direct")

\* Two requests of the print server served at the same time, each by its own
\* instance, both for the same printer: the first may be any request, the
\* second is a readable PDF printed without device errors. These are the two
\* print_pdf calls on their own; InitAsync adds the requests' job records.
InitServer ==
    /\ InitWith({[p \in Printers |-> IF p = 1 THEN <<d>> ELSE <<e>>] :
                    d \in Documents(MaxServerPages),
                    e \in {Pdf(n) : n \in 1 .. MaxServerPages}},
                [Printers -> {1}], {[p \in Printers |-> IF p = 1 THEN 1 ELSE 0]})
    /\ InitEnv({PortraitOnSquare}, "direct")

\* Two POST /print-async requests for one-page documents that arrive
\* together: the first may be any request, the second is a readable PDF
\* printed without device errors.
InitAsync ==
    /\ InitWith({[p \in Printers |-> IF p = 1 THEN <<d>> ELSE <<Pdf(1)>>] :
                    d \in Documents(1)},
                [Printers -> {1}], {[p \in Printers |-> IF p = 1 THEN 1 ELSE 0]})
    /\ InitEnv({PortraitOnSquare}, "request")

\* The control panel alone: no print_pdf call is made in this program.
InitPanel ==
    /\ InitWith({[p \in Printers |-> <<>>]}, [Printers -> {1}], [Printers -> {0}])
    /\ InitEnv({PortraitOnSquare}, "direct")

\* One instance printing a document of one page, for every image size and
\* every page size.
InitScale ==
    /\ InitWith({[p \in Printers |-> IF p = 1 THEN <<d>> ELSE <<>>] :
                    d \in Documents(1)},
                [Printers -> {1}], [Printers -> {1}])
    /\ InitEnv(Sizes(MaxDim), "direct")

\* -------------------------------------------------------- print_pdf
\* The caller is between two calls and has another document to print.
CallerReady(p) ==
    /\ main_pc[p] \in {"idle", "returned", "returned_early", "raised"}
    /\ srv_pc[p] \in {"direct", "printing"}
    /\ requests[p] /= <<>>

\* print_pdf up to the reset of the stats: the path exists, pdfinfo answers.
PrintPdf(p) ==
    /\ CallerReady(p)
    /\ Head(requests[p]).kind = "pdf"
    /\ requests' = [requests EXCEPT ![p] = Tail(@)]
    /\ total' = [total EXCEPT ![p] = Head(requests[p]).pages]
    /\ converted' = [converted EXCEPT ![p] = 0]
    /\ printed' = [printed EXCEPT ![p] = 0]
    /\ stop_flag' = [stop_flag EXCEPT ![p] = FALSE]
    /\ printer_dc' = [printer_dc EXCEPT ![p] = None]
    /\ job_no' = [job_no EXCEPT ![p] = @ + 1]
    /\ main_pc' = [main_pc EXCEPT ![p] = "start_workers"]
    /\ device_calls' = [device_calls EXCEPT ![p] = <<>>]
    /\ handed' = [handed EXCEPT ![p] = <<>>]
    /\ conv_failed' = [conv_failed EXCEPT ![p] = {}]
    /\ emit_failed' = [emit_failed EXCEPT ![p] = {}]
    /\ rasterized' = [rasterized EXCEPT ![p] = EmptyBag]
    /\ UNCHANGED <<threads, printer_name, faults, page, jqv, iqv, print_lock, cw, pw,
                   srvv, gdiv, stats_lock, panel>>

\* print_pdf on a path that does not exist: FileNotFoundError.
PrintPdfNotFound(p) ==
    /\ CallerReady(p)
    /\ Head(requests[p]).kind = "missing"
    /\ requests' = [requests EXCEPT ![p] = Tail(@)]
    /\ main_pc' = [main_pc EXCEPT ![p] = "raised"]
    /\ UNCHANGED <<threads, printer_name, faults, page, job_no, statv, jqv,
                   iqv, stop_flag, print_lock, devv, cw, pw, handed, conv_failed, emit_failed, rasterized, srvv, gdiv, stats_lock, panel>>

\* print_pdf on an unreadable document: pdfinfo raises, print_pdf returns.
PrintPdfUnreadable(p) ==
    /\ CallerReady(p)
    /\ Head(requests[p]).kind = "unreadable"
    /\ requests' = [requests EXCEPT ![p] = Tail(@)]
    /\ main_pc' = [main_pc EXCEPT ![p] = "returned_early"]
    /\ UNCHANGED <<threads, printer_name, faults, page, job_no, statv, jqv,
                   iqv, stop_flag, print_lock, devv, cw, pw, handed, conv_failed, emit_failed, rasterized, srvv, gdiv, stats_lock, panel>>

\* The worker threads print_pdf starts: `threads` convert workers and one
\* print worker, each at the top of its loop.
StartWorkers(p) ==
    /\ main_pc[p] = "start_workers"
    /\ cw' = [cw EXCEPT ![p] = @ (+) Copies(IdleCW(job_no[p]), threads[p])]
    /\ pw' = [pw EXCEPT ![p][job_no[p]] =
                [pc |-> "check", next_page |-> 1, buffer |-> {},
                 img |-> Task(0, 0)]]
    /\ page' = [page EXCEPT ![p] = 1]
    /\ main_pc' = [main_pc EXCEPT ![p] = "queue"]
    /\ UNCHANGED <<envv, faults, job_no, statv, jqv, iqv, stop_flag, print_lock, devv,
                   handed, conv_failed, emit_failed, rasterized, srvv, gdiv, stats_lock, panel>>

\* One iteration of `for page in range(1, self.total + 1): job_queue.put(...)`.
QueuePage(p) ==
    /\ main_pc[p] = "queue"
    /\ job_queue' = [job_queue EXCEPT ![p] = Append(@, Task(job_no[p], page[p]))]
    /\ job_unfinished' = [job_unfinished EXCEPT ![p] = @ + 1]
    /\ page' = [page EXCEPT ![p] = @ + 1]
    /\ main_pc' = [main_pc EXCEPT ![p] =
                     IF page[p] >= total[p] THEN "join_jobs" ELSE "queue"]
    /\ UNCHANGED <<envv, faults, job_no, statv, iqv, stop_flag, print_lock, devv, cw, pw,
                   handed, conv_failed, emit_failed, rasterized, srvv, gdiv, stats_lock, panel>>

\* A join that does not wait for the tasks still in progress.
JoinedNoWait(unfinished) == TRUE

\* Queue.join returns once every put has been matched by a task_done.
Joined(unfinished) == unfinished = 0

\* self.job_queue.join()
JoinJobs(p) ==
    /\ main_pc[p] = "join_jobs"
    /\ Joined(job_unfinished[p])
    /\ main_pc' = [main_pc EXCEPT ![p] = "join_images"]
    /\ UNCHANGED <<envv, faults, page, job_no, statv, jqv, iqv, stop_flag, print_lock,
                   devv, cw, pw, handed, conv_failed, emit_failed, rasterized, srvv, gdiv, stats_lock, panel>>

\* A coordinator that goes on to the close without waiting for the images.
JoinImagesNoWait(p) ==
    /\ main_pc[p] = "join_images"
    /\ main_pc' = [main_pc EXCEPT ![p] = "close"]
    /\ UNCHANGED <<envv, faults, page, job_no, statv, jqv, iqv, stop_flag, print_lock,
                   devv, cw, pw, handed, conv_failed, emit_failed, rasterized, srvv, gdiv, stats_lock, panel>>

\* self.image_queue.join()
JoinImages(p) ==
    /\ main_pc[p] = "join_images"
    /\ Joined(image_unfinished[p])
    /\ main_pc' = [main_pc EXCEPT ![p] = "close"]
    /\ UNCHANGED <<envv, faults, page, job_no, statv, jqv, iqv, stop_flag, print_lock,
                   devv, cw, pw, handed, conv_failed, emit_failed, rasterized, srvv, gdiv, stats_lock, panel>>

\* A lock that does not exclude anybody.
CanLockAlways(holder) == TRUE

\* Lock.acquire: the lock can be taken when nobody holds it.
CanLock(holder) == holder = FREE

\* A final close that is left out: print_pdf goes on to stop_flag.set().
CloseLockSkipped(p) ==
    /\ main_pc[p] = "close"
    /\ main_pc' = [main_pc EXCEPT ![p] = "set_stop"]
    /\ UNCHANGED <<envv, faults, page, job_no, statv, jqv, iqv, stop_flag, print_lock,
                   devv, cw, pw, handed, conv_failed, emit_failed, rasterized, srvv, gdiv, stats_lock, panel>>

\* `with self.print_lock:` of the final close, and the test of printer_dc.
CloseLock(p) ==
    /\ main_pc[p] = "close"
    /\ CanLock(print_lock[p])
    /\ IF printer_dc[p] /= None
       THEN /\ print_lock' = [print_lock EXCEPT ![p] = MAIN]
            /\ main_pc' = [main_pc EXCEPT ![p] = "close_enddoc"]
       ELSE /\ print_lock' = print_lock
            /\ main_pc' = [main_pc EXCEPT ![p] = "set_stop"]
    /\ UNCHANGED <<envv, faults, page, job_no, statv, jqv, iqv, stop_flag, devv, cw, pw,
                   handed, conv_failed, emit_failed, rasterized, srvv, gdiv, stats_lock, panel>>

\* self.printer_dc.EndDoc() of the final close; an error skips DeleteDC.
CloseEndDoc(p) ==
    /\ main_pc[p] = "close_enddoc"
    /\ \E ok \in Outcomes(p) :
         /\ device_calls' = [device_calls EXCEPT ![p] = Append(@, Call("EndDoc", ok))]
         /\ faults' = Spend(p, ok)
         /\ IF ok
            THEN /\ main_pc' = [main_pc EXCEPT ![p] = "close_deletedc"]
                 /\ UNCHANGED <<printer_dc, print_lock>>
            ELSE /\ main_pc' = [main_pc EXCEPT ![p] = "set_stop"]
                 /\ printer_dc' = [printer_dc EXCEPT ![p] = None]
                 /\ print_lock' = [print_lock EXCEPT ![p] = FREE]
    /\ UNCHANGED <<envv, page, job_no, statv, jqv, iqv, stop_flag, cw, pw,
                   handed, conv_failed, emit_failed, rasterized, srvv, gdiv, stats_lock, panel>>

\* self.printer_dc.DeleteDC() of the final close, then printer_dc = None.
CloseDeleteDC(p) ==
    /\ main_pc[p] = "close_deletedc"
    /\ \E ok \in Outcomes(p) :
         /\ device_calls' = [device_calls EXCEPT ![p] = Append(@, Call("DeleteDC", ok))]
         /\ faults' = Spend(p, ok)
    /\ printer_dc' = [printer_dc EXCEPT ![p] = None]
    /\ print_lock' = [print_lock EXCEPT ![p] = FREE]
    /\ main_pc' = [main_pc EXCEPT ![p] = "set_stop"]
    /\ UNCHANGED <<envv, page, job_no, statv, jqv, iqv, stop_flag, cw, pw,
                   handed, conv_failed, emit_failed, rasterized, srvv, gdiv, stats_lock, panel>>

\* self.stop_flag.set() and the report: print_pdf returns.
SetStop(p) ==
    /\ main_pc[p] = "set_stop"
    /\ stop_flag' = [stop_flag EXCEPT ![p] = TRUE]
    /\ main_pc' = [main_pc EXCEPT ![p] = "returned"]
    /\ UNCHANGED <<envv, faults, page, job_no, statv, jqv, iqv, print_lock, devv, cw, pw,
                   handed, conv_failed, emit_failed, rasterized, srvv, gdiv, stats_lock, panel>>

\* ---------------------------------------------------- convert_worker
\* The worker in state w moves to state w2, or ends.
Step(p, w, w2) == cw' = [cw EXCEPT ![p] = (@ (-) SetToBag({w})) (+) SetToBag({w2})]
Exit(p, w) == cw' = [cw EXCEPT ![p] = @ (-) SetToBag({w})]

\* `while not self.stop_flag.is_set():` -- the worker leaves when it sees the flag.
CWCheck(p, w) ==
    /\ w.pc = "check"
    /\ IF stop_flag[p] THEN Exit(p, w) ELSE Step(p, w, [w EXCEPT !.pc = "get"])
    /\ UNCHANGED <<envv, faults, mainv, statv, jqv, iqv, stop_flag, print_lock, devv, pw,
                   handed, conv_failed, emit_failed, rasterized, srvv, gdiv, stats_lock, panel>>

\* job_queue.get(timeout=0.5) returns a task.
CWGet(p, w) ==
    /\ w.pc = "get"
    /\ job_queue[p] /= <<>>
    /\ Step(p, w, [w EXCEPT !.pc = "convert", !.task = Head(job_queue[p])])
    /\ job_queue' = [job_queue EXCEPT ![p] = QueueGet(@)]
    /\ UNCHANGED <<envv, faults, mainv, statv, job_unfinished, iqv, stop_flag, print_lock,
                   devv, pw, handed, conv_failed, emit_failed, rasterized, srvv, gdiv, stats_lock, panel>>

\* job_queue.get(timeout=0.5) times out on an empty queue: `continue`. While
\* stop_flag is clear the loop test sends the worker straight back into the
\* same get, which changes nothing; the step is taken when the flag is set.
CWTimeout(p, w) ==
    /\ w.pc = "get"
    /\ job_queue[p] = <<>>
    /\ stop_flag[p]
    /\ Step(p, w, [w EXCEPT !.pc = "check"])
    /\ UNCHANGED <<envv, faults, mainv, statv, jqv, iqv, stop_flag, print_lock, devv, pw,
                   handed, conv_failed, emit_failed, rasterized, srvv, gdiv, stats_lock, panel>>

\* What a worker does with the image of a converted page.
PutImage(q, img) == q \cup {img}

\* convert_from_path returns the page image: image_queue.put((page_num, image)).
CWConverted(p, w) ==
    /\ w.pc = "convert"
    /\ rasterized' = [rasterized EXCEPT ![p] = @ (+) SetToBag({w.task})]
    /\ image_queue' = [image_queue EXCEPT ![p] = PutImage(@, w.task)]
    /\ image_unfinished' = [image_unfinished EXCEPT ![p] = @ + 1]
    /\ Step(p, w, [w EXCEPT !.pc = "count"])
    /\ UNCHANGED <<envv, faults, mainv, statv, jqv, stop_flag, print_lock, devv, pw,
                   handed, conv_failed, emit_failed, srvv, gdiv, stats_lock, panel>>

\* A failed conversion that skips job_queue.task_done().
CWConvertFailedNoTaskDone(p, w) ==
    /\ w.pc = "convert"
    /\ rasterized' = [rasterized EXCEPT ![p] = @ (+) SetToBag({w.task})]
    /\ conv_failed' = [conv_failed EXCEPT ![p] = @ \cup {w.task}]
    /\ Step(p, w, IdleCW(w.job))
    /\ UNCHANGED <<envv, faults, mainv, statv, jqv, iqv, stop_flag, print_lock, devv, pw,
                   handed, emit_failed, srvv, gdiv, stats_lock, panel>>

\* convert_from_path raises (or returns no image): the error is printed.
CWConvertFailed(p, w) ==
    /\ w.pc = "convert"
    /\ rasterized' = [rasterized EXCEPT ![p] = @ (+) SetToBag({w.task})]
    /\ conv_failed' = [conv_failed EXCEPT ![p] = @ \cup {w.task}]
    /\ Step(p, w, [w EXCEPT !.pc = "task_done"])
    /\ UNCHANGED <<envv, faults, mainv, statv, jqv, iqv, stop_flag, print_lock, devv, pw,
                   handed, emit_failed, srvv, gdiv, stats_lock, panel>>

\* `with self.stats_lock:` in convert_worker.
CWStatsLock(p, w) ==
    /\ w.pc = "count"
    /\ CanLock(stats_lock[p])
    /\ stats_lock' = [stats_lock EXCEPT ![p] = CW]
    /\ Step(p, w, [w EXCEPT !.pc = "counting"])
    /\ UNCHANGED <<envv, faults, mainv, statv, jqv, iqv, stop_flag, print_lock, devv, pw,
                   handed, conv_failed, emit_failed, rasterized, srvv, gdiv, panel>>

\* self.converted += 1 and the progress line; the lock is released.
CWCount(p, w) ==
    /\ w.pc = "counting"
    /\ converted' = [converted EXCEPT ![p] = @ + 1]
    /\ stats_lock' = [stats_lock EXCEPT ![p] = FREE]
    /\ Step(p, w, [w EXCEPT !.pc = "task_done"])
    /\ UNCHANGED <<envv, faults, mainv, total, printed, jqv, iqv, stop_flag, print_lock,
                   devv, pw, handed, conv_failed, emit_failed, rasterized, srvv, gdiv, panel>>

\* self.job_queue.task_done(), and back to the top of the loop.
CWTaskDone(p, w) ==
    /\ w.pc = "task_done"
    /\ job_unfinished' = [job_unfinished EXCEPT ![p] = @ - 1]
    /\ Step(p, w, IdleCW(w.job))
    /\ UNCHANGED <<envv, faults, mainv, statv, job_queue, iqv, stop_flag, print_lock, devv,
                   pw, handed, conv_failed, emit_failed, rasterized, srvv, gdiv, stats_lock, panel>>

\* ------------------------------------------------------ print_worker
\* `while not self.stop_flag.is_set() or not self.image_queue.empty():`
PWCheck(p, j) ==
    /\ pw[p][j].pc = "check"
    /\ pw' = [pw EXCEPT ![p][j].pc =
                IF ~stop_flag[p] \/ image_queue[p] /= {} THEN "get" ELSE "exited"]
    /\ UNCHANGED <<envv, faults, mainv, statv, jqv, iqv, stop_flag, print_lock, devv, cw,
                   handed, conv_failed, emit_failed, rasterized, srvv, gdiv, stats_lock, panel>>

\* image_queue.get(timeout=0.5) returns the lowest page; buffer[page_num] = image.
PWGet(p, j) ==
    /\ pw[p][j].pc = "get"
    /\ image_queue[p] /= {}
    /\ LET img == MinImage(image_queue[p]) IN
         /\ image_queue' = [image_queue EXCEPT ![p] = @ \ {img}]
         /\ pw' = [pw EXCEPT ![p][j].pc = "drain",
                             ![p][j].buffer = BufferPut(@, img)]
    /\ UNCHANGED <<envv, faults, mainv, statv, jqv, image_unfinished, stop_flag, print_lock,
                   devv, cw, handed, conv_failed, emit_failed, rasterized, srvv, gdiv, stats_lock, panel>>

\* image_queue.get(timeout=0.5) times out on an empty queue: `continue`. While
\* stop_flag is clear the loop test sends the worker straight back into the
\* same get, which changes nothing; the step is taken when the flag is set.
PWTimeout(p, j) ==
    /\ pw[p][j].pc = "get"
    /\ image_queue[p] = {}
    /\ stop_flag[p]
    /\ pw' = [pw EXCEPT ![p][j].pc = "check"]
    /\ UNCHANGED <<envv, faults, mainv, statv, jqv, iqv, stop_flag, print_lock, devv, cw,
                   handed, conv_failed, emit_failed, rasterized, srvv, gdiv, stats_lock, panel>>

\* A reorder loop that releases whatever page it holds.
ReadyAnyPage(buffer, next_page) == {b \in buffer : b.page >= next_page}

\* The page the reorder loop releases next: the one numbered next_page.
Ready(buffer, next_page) == {b \in buffer : b.page = next_page}

\* `while next_page in buffer: img = buffer.pop(next_page)` and the call of
\* _print_image_working(img, next_page); when the page is not there, the loop
\* ends and the worker goes on to image_queue.task_done().
PWDrain(p, j) ==
    /\ pw[p][j].pc = "drain"
    /\ LET ready == Ready(pw[p][j].buffer, pw[p][j].next_page) IN
         IF ready /= {}
         THEN LET img == CHOOSE b \in ready : TRUE IN
                /\ pw' = [pw EXCEPT ![p][j].pc = "lock",
                                    ![p][j].buffer = @ \ {img},
                                    ![p][j].img = img]
                /\ handed' = [handed EXCEPT ![p] =
                                Append(@, [worker |-> j, page |-> pw[p][j].next_page,
                                           img |-> img])]
         ELSE /\ pw' = [pw EXCEPT ![p][j].pc = "task_done"]
              /\ handed' = handed
    /\ UNCHANGED <<envv, faults, mainv, statv, jqv, iqv, stop_flag, print_lock, devv, cw,
                   conv_failed, emit_failed, rasterized, srvv, gdiv, stats_lock, panel>>

\* self.image_queue.task_done()
PWTaskDone(p, j) ==
    /\ pw[p][j].pc = "task_done"
    /\ image_unfinished' = [image_unfinished EXCEPT ![p] = @ - 1]
    /\ pw' = [pw EXCEPT ![p][j].pc = "check"]
    /\ UNCHANGED <<envv, faults, mainv, statv, jqv, image_queue, stop_flag, print_lock,
                   devv, cw, handed, conv_failed, emit_failed, rasterized, srvv, gdiv, stats_lock, panel>>

\* The emitter returned: `with self.stats_lock:` in print_worker.
PWStatsLock(p, j) ==
    /\ pw[p][j].pc = "printed"
    /\ CanLock(stats_lock[p])
    /\ stats_lock' = [stats_lock EXCEPT ![p] = PW(j)]
    /\ pw' = [pw EXCEPT ![p][j].pc = "counting"]
    /\ UNCHANGED <<envv, faults, mainv, statv, jqv, iqv, stop_flag, print_lock, devv, cw,
                   handed, conv_failed, emit_failed, rasterized, srvv, gdiv, panel>>

\* self.printed += 1 and the progress line; the lock is released; next_page += 1.
PWPrinted(p, j) ==
    /\ pw[p][j].pc = "counting"
    /\ printed' = [printed EXCEPT ![p] = @ + 1]
    /\ stats_lock' = [stats_lock EXCEPT ![p] = FREE]
    /\ pw' = [pw EXCEPT ![p][j].pc = "drain", ![p][j].next_page = @ + 1]
    /\ UNCHANGED <<envv, faults, mainv, total, converted, jqv, iqv, stop_flag, print_lock,
                   devv, cw, handed, conv_failed, emit_failed, rasterized, srvv, gdiv, panel>>

\* The emitter raised: the error is printed, next_page += 1.
PWFailed(p, j) ==
    /\ pw[p][j].pc = "failed"
    /\ pw' = [pw EXCEPT ![p][j].pc = "drain", ![p][j].next_page = @ + 1]
    /\ emit_failed' = [emit_failed EXCEPT ![p] =
                         @ \cup {[worker |-> j, page |-> pw[p][j].next_page]}]
    /\ UNCHANGED <<envv, faults, mainv, statv, jqv, iqv, stop_flag, print_lock, devv, cw,
                   handed, conv_failed, rasterized, srvv, gdiv, stats_lock, panel>>

\* ---------------------------------------------- _print_image_working

\* One step of the emitter run by print worker j: the device calls it adds
\* to the history, where the worker goes, what printer_dc and print_lock become
\* (the rectangle drawn is set by the step itself).
EmitStep(p, j, calls, pc2, dc2, lock2) ==
    /\ device_calls' = [device_calls EXCEPT ![p] = @ \o calls]
    /\ faults' = Spend(p, \A i \in 1 .. Len(calls) : calls[i].ok)
    /\ pw' = [pw EXCEPT ![p][j].pc = pc2]
    /\ printer_dc' = [printer_dc EXCEPT ![p] = dc2]
    /\ print_lock' = [print_lock EXCEPT ![p] = lock2]
    /\ UNCHANGED <<envv, mainv, statv, jqv, iqv, stop_flag, cw, handed, conv_failed, emit_failed, rasterized, srvv, size, stats_lock, panel>>

\* `with self.print_lock:` and the test `page_num == 1`.
EmitLock(p, j) ==
    /\ rect' = rect
    /\ pw[p][j].pc = "lock"
    /\ CanLock(print_lock[p])
    /\ EmitStep(p, j, <<>>,
                IF pw[p][j].next_page = 1 THEN "create" ELSE "startpage",
                printer_dc[p], PW(j))

\* self.printer_dc = win32ui.CreateDC(); self.printer_dc.CreatePrinterDC(name).
\* An error leaves the function outside its try block: no cleanup.
EmitCreateDC(p, j) ==
    /\ rect' = rect
    /\ pw[p][j].pc = "create"
    /\ \E ok \in Outcomes(p) :
         IF ok
         THEN EmitStep(p, j, <<Call("CreatePrinterDC", ok)>>, "startdoc", DC, PW(j))
         ELSE EmitStep(p, j, <<Call("CreatePrinterDC", ok)>>, "failed", DC, FREE)

\* self.printer_dc.StartDoc("PDF Print Job"), also outside the try block.
EmitStartDoc(p, j) ==
    /\ rect' = rect
    /\ pw[p][j].pc = "startdoc"
    /\ \E ok \in Outcomes(p) :
         IF ok
         THEN EmitStep(p, j, <<Call("StartDoc", ok)>>, "startpage", printer_dc[p], PW(j))
         ELSE EmitStep(p, j, <<Call("StartDoc", ok)>>, "failed", printer_dc[p], FREE)

\* self.printer_dc.StartPage(); on printer_dc = None this is an AttributeError,
\* the handler finds no printer_dc to abort and raises again.
EmitStartPage(p, j) ==
    /\ rect' = rect
    /\ pw[p][j].pc = "startpage"
    /\ IF printer_dc[p] = None
       THEN EmitStep(p, j, <<>>, "failed", None, FREE)
       ELSE \E ok \in Outcomes(p) :
              EmitStep(p, j, <<Call("StartPage", ok)>>,
                       IF ok THEN "draw" ELSE "cleanup", printer_dc[p], PW(j))

\* GetDeviceCaps, the scaling, ImageWin.Dib(image) and dib.draw(...).
EmitDraw(p, j) ==
    /\ pw[p][j].pc = "draw"
    /\ \E ok \in Outcomes(p) :
         /\ EmitStep(p, j, <<Call("Draw", ok)>>,
                     IF ok THEN "endpage" ELSE "cleanup", printer_dc[p], PW(j))
         /\ IF ok
            THEN \E r \in FitRects(size[p]) : rect' = [rect EXCEPT ![p] = r]
            ELSE rect' = rect

\* A last-page test that is off by one.
IsLastPageOffByOne(page_num, n) == page_num = n - 1

\* The page that closes the job: `if page_num == self.total`.
IsLastPage(page_num, n) == page_num = n

\* self.printer_dc.EndPage(), then the test for the last page.
EmitEndPage(p, j) ==
    /\ rect' = rect
    /\ pw[p][j].pc = "endpage"
    /\ \E ok \in Outcomes(p) :
         IF ~ok
         THEN EmitStep(p, j, <<Call("EndPage", ok)>>, "cleanup", printer_dc[p], PW(j))
         ELSE IF IsLastPage(pw[p][j].next_page, total[p])
              THEN EmitStep(p, j, <<Call("EndPage", ok)>>, "enddoc", printer_dc[p], PW(j))
              ELSE EmitStep(p, j, <<Call("EndPage", ok)>>, "printed", printer_dc[p], FREE)

\* self.printer_dc.EndDoc() after the last page.
EmitEndDoc(p, j) ==
    /\ rect' = rect
    /\ pw[p][j].pc = "enddoc"
    /\ \E ok \in Outcomes(p) :
         EmitStep(p, j, <<Call("EndDoc", ok)>>,
                  IF ok THEN "deletedc" ELSE "cleanup", printer_dc[p], PW(j))

\* self.printer_dc.DeleteDC(); self.printer_dc = None after the last page.
EmitDeleteDC(p, j) ==
    /\ rect' = rect
    /\ pw[p][j].pc = "deletedc"
    /\ \E ok \in Outcomes(p) :
         IF ok
         THEN EmitStep(p, j, <<Call("DeleteDC", ok)>>, "printed", None, FREE)
         ELSE EmitStep(p, j, <<Call("DeleteDC", ok)>>, "cleanup", printer_dc[p], PW(j))

\* The except block: `if self.printer_dc: self.printer_dc.AbortDoc()`; an
\* error of AbortDoc is swallowed and the original error raised again.
EmitAbortDoc(p, j) ==
    /\ rect' = rect
    /\ pw[p][j].pc = "cleanup"
    /\ IF printer_dc[p] = None
       THEN EmitStep(p, j, <<>>, "failed", None, FREE)
       ELSE \E ok \in Outcomes(p) :
              IF ok
              THEN EmitStep(p, j, <<Call("AbortDoc", ok)>>, "abort_deletedc",
                            printer_dc[p], PW(j))
              ELSE EmitStep(p, j, <<Call("AbortDoc", ok)>>, "failed",
                            printer_dc[p], FREE)

\* The except block: self.printer_dc.DeleteDC(); self.printer_dc = None; raise.
EmitAbortDeleteDC(p, j) ==
    /\ rect' = rect
    /\ pw[p][j].pc = "abort_deletedc"
    /\ \E ok \in Outcomes(p) :
         EmitStep(p, j, <<Call("DeleteDC", ok)>>, "failed",
                  IF ok THEN None ELSE printer_dc[p], FREE)

\* ------------------------------------------------------ cancellation
\* Ctrl-C while print_pdf waits in job_queue.join() or image_queue.join():
\* KeyboardInterrupt leaves print_pdf (print_folder raises it again) and is
\* caught in main(), which prints "Stopped by user".
Interrupt(p) ==
    /\ main_pc[p] \in {"join_jobs", "join_images"}
    /\ main_pc' = [main_pc EXCEPT ![p] = "interrupted"]
    /\ UNCHANGED <<envv, faults, page, job_no, statv, jqv, iqv, stop_flag, print_lock,
                   devv, cw, pw, handed, conv_failed, emit_failed, rasterized, srvv, gdiv, stats_lock, panel>>

\* main() returns and the interpreter exits: the workers are daemon threads
\* and end with it, wherever they are.
ProcessExit(p) ==
    /\ main_pc[p] = "interrupted"
    /\ main_pc' = [main_pc EXCEPT ![p] = "exited"]
    /\ cw' = [cw EXCEPT ![p] = EmptyBag]
    /\ pw' = [pw EXCEPT ![p] =
                [j \in Jobs |-> IF @[j].pc \in {"none", "exited"}
                                THEN @[j] ELSE [@[j] EXCEPT !.pc = "killed"]]]
    /\ UNCHANGED <<envv, faults, page, job_no, statv, jqv, iqv, stop_flag, print_lock,
                   devv, handed, conv_failed, emit_failed, rasterized, srvv, gdiv, stats_lock, panel>>

\* ------------------------------------------------------- print_server
\* The clock readings a new request can get: the first request reads 1, a
\* later one the latest reading again (same millisecond) or the next.
Readings ==
    LET used == {job_id[p] : p \in Printers} \ {0} IN
      IF used = {} THEN {1}
      ELSE LET last == CHOOSE i \in used : \A k \in used : k <= i IN
             {last, last + 1} \cap JobIds

Job(status, file) == [status |-> status, file_path |-> file]
SetStatus(p, status) ==
    active_jobs' = [active_jobs EXCEPT ![job_id[p]].status = status]

\* POST /print-async: job_id = f"job_{int(time.time() * 1000)}", the record is
\* stored as 'queued' and the background thread started. A missing document
\* that gets here existed when the handler looked (os.path.exists) and is gone
\* when print_pdf looks again.
PrintAsync(p) ==
    /\ srv_pc[p] = "request"
    /\ \E id \in Readings :
         /\ job_id' = [job_id EXCEPT ![p] = id]
         /\ active_jobs' = [active_jobs EXCEPT ![id] = Job("queued", p)]
    /\ srv_pc' = [srv_pc EXCEPT ![p] = "queued"]
    /\ UNCHANGED <<envv, faults, mainv, statv, jqv, iqv, stop_flag, print_lock, devv, cw,
                   pw, handed, conv_failed, emit_failed, rasterized, gdiv, stats_lock, panel>>

\* POST /print-async for a file that does not exist: 404, no job.
PrintAsyncNotFound(p) ==
    /\ srv_pc[p] = "request"
    /\ Head(requests[p]).kind = "missing"
    /\ requests' = [requests EXCEPT ![p] = Tail(@)]
    /\ srv_pc' = [srv_pc EXCEPT ![p] = "rejected"]
    /\ UNCHANGED <<threads, printer_name, faults, mainv, statv, jqv, iqv, stop_flag,
                   print_lock, devv, cw, pw, handed, conv_failed, emit_failed,
                   rasterized, job_id, active_jobs, gdiv, stats_lock, panel>>

\* The background thread: active_jobs[job_id]['status'] = 'printing'; it then
\* creates its WorkingPDFPrinter and calls print_pdf.
JobPrinting(p) ==
    /\ srv_pc[p] = "queued"
    /\ SetStatus(p, "printing")
    /\ srv_pc' = [srv_pc EXCEPT ![p] = "printing"]
    /\ UNCHANGED <<envv, faults, mainv, statv, jqv, iqv, stop_flag, print_lock, devv, cw,
                   pw, handed, conv_failed, emit_failed, rasterized, job_id, gdiv, stats_lock, panel>>

\* print_pdf returned: active_jobs[job_id]['status'] = 'completed'.
JobCompleted(p) ==
    /\ srv_pc[p] = "printing"
    /\ main_pc[p] \in {"returned", "returned_early"}
    /\ SetStatus(p, "completed")
    /\ srv_pc' = [srv_pc EXCEPT ![p] = "done"]
    /\ UNCHANGED <<envv, faults, mainv, statv, jqv, iqv, stop_flag, print_lock, devv, cw,
                   pw, handed, conv_failed, emit_failed, rasterized, job_id, gdiv, stats_lock, panel>>

\* print_pdf raised: active_jobs[job_id]['status'] = 'failed'.
JobFailed(p) ==
    /\ srv_pc[p] = "printing"
    /\ main_pc[p] = "raised"
    /\ SetStatus(p, "failed")
    /\ srv_pc' = [srv_pc EXCEPT ![p] = "done"]
    /\ UNCHANGED <<envv, faults, mainv, statv, jqv, iqv, stop_flag, print_lock, devv, cw,
                   pw, handed, conv_failed, emit_failed, rasterized, job_id, gdiv, stats_lock, panel>>

\* ------------------------------------------------------ control_panel
\* The kinds of child still running that the field `field` would stop
\* referring to if it were assigned again.
Dropped(field, kind) == IF panel[field] = "alive" THEN {kind} ELSE {}

\* The except block of _start_servers_thread: status Error, START enabled,
\* STOP disabled; the thread ends.
StartError(pn) ==
    [pn EXCEPT !.status_label = "Error", !.start_button = "normal",
               !.stop_button = "disabled", !.start_pc = "idle"]

\* The START button: start_servers. It returns at once when is_running;
\* otherwise it disables START, enables STOP and starts the thread.
ClickStart ==
    /\ panel.window = "open"
    /\ panel.start_button = "normal"
    /\ panel' = IF panel.is_running
                THEN panel
                ELSE [panel EXCEPT !.start_button = "disabled", !.stop_button = "normal",
                                   !.status_label = "Starting", !.start_pc = "preflight",
                                   !.last_handler = "none"]
    /\ panel' /= panel
    /\ UNCHANGED pipev

\* The pre-flight checks (python, npm, mvp/dist): all pass, or one raises.
Preflight ==
    /\ panel.start_pc = "preflight"
    /\ \E ok \in BOOLEAN :
         panel' = IF ok THEN [panel EXCEPT !.start_pc = "popen_server"]
                  ELSE StartError(panel)
    /\ UNCHANGED pipev

\* self.print_server_process = subprocess.Popen(...): the child runs, or Popen
\* raises and the field keeps its value.
PopenServer ==
    /\ panel.start_pc = "popen_server"
    /\ \E ok \in BOOLEAN :
         panel' = IF ok
                  THEN [panel EXCEPT !.print_server_process = "alive",
                                     !.orphans = @ \cup Dropped("print_server_process",
                                                                "print_server"),
                                     !.start_pc = "poll_server"]
                  ELSE StartError(panel)
    /\ UNCHANGED pipev

\* time.sleep(2); poll(): the server runs, or it has exited and the thread
\* returns (the buttons and is_running stay as they are).
PollServer ==
    /\ panel.start_pc = "poll_server"
    /\ panel' = IF panel.print_server_process = "alive"
                THEN [panel EXCEPT !.start_pc = "popen_bot"]
                ELSE [panel EXCEPT !.start_pc = "idle"]
    /\ UNCHANGED pipev

\* self.whatsapp_bot_process = subprocess.Popen(...).
PopenBot ==
    /\ panel.start_pc = "popen_bot"
    /\ \E ok \in BOOLEAN :
         panel' = IF ok
                  THEN [panel EXCEPT !.whatsapp_bot_process = "alive",
                                     !.orphans = @ \cup Dropped("whatsapp_bot_process",
                                                                "whatsapp_bot"),
                                     !.start_pc = "poll_bot"]
                  ELSE StartError(panel)
    /\ UNCHANGED pipev

\* time.sleep(3); poll(): the bot runs and is_running = True, status Running;
\* or it has exited and the thread returns.
PollBot ==
    /\ panel.start_pc = "poll_bot"
    /\ panel' = IF panel.whatsapp_bot_process = "alive"
                THEN [panel EXCEPT !.is_running = TRUE, !.status_label = "Running",
                                   !.start_pc = "idle"]
                ELSE [panel EXCEPT !.start_pc = "idle"]
    /\ UNCHANGED pipev

\* A child the panel refers to exits by itself.
ChildExit ==
    /\ \E field \in {"print_server_process", "whatsapp_bot_process"} :
         /\ panel[field] = "alive"
         /\ panel' = [panel EXCEPT ![field] = "dead"]
    /\ UNCHANGED pipev

\* `if not self.is_running: return` at the top of stop_servers.
Stoppable(pn) == pn.is_running

\* stop_servers: nothing when not is_running; otherwise each process the
\* fields refer to is terminated (killed after 5 s) and the field set to None,
\* is_running = False, status Stopped, START enabled, STOP disabled.
StopServers(pn) ==
    IF ~Stoppable(pn) THEN pn
    ELSE [pn EXCEPT !.print_server_process = None, !.whatsapp_bot_process = None,
                    !.is_running = FALSE, !.status_label = "Stopped",
                    !.start_button = "normal", !.stop_button = "disabled"]

\* The STOP button.
ClickStop ==
    /\ panel.window = "open"
    /\ panel.stop_button = "normal"
    /\ panel' = [StopServers(panel) EXCEPT !.last_handler = "stop_servers"]
    /\ panel' /= panel
    /\ UNCHANGED pipev

\* Closing the window: on_closing stops the servers when is_running and
\* destroys the window; mainloop returns and the program ends, and with it
\* the start thread (a daemon thread).
CloseWindow ==
    /\ panel.window = "open"
    /\ panel' = [(IF panel.is_running THEN StopServers(panel) ELSE panel)
                    EXCEPT !.window = "destroyed", !.start_pc = "idle",
                           !.last_handler = "on_closing"]
    /\ UNCHANGED pipev

PanelStep ==
    \/ ClickStart
    \/ Preflight
    \/ PopenServer
    \/ PollServer
    \/ PopenBot
    \/ PollBot
    \/ ChildExit
    \/ ClickStop
    \/ CloseWindow

\* -------------------------------------------------------------- Next
\* The steps of the coordinator, of a convert worker and of a print worker.
MainStep(p) ==
    \/ PrintPdf(p)
    \/ PrintPdfNotFound(p)
    \/ PrintPdfUnreadable(p)
    \/ StartWorkers(p)
    \/ QueuePage(p)
    \/ JoinJobs(p)
    \/ JoinImages(p)
    \/ CloseLock(p)
    \/ CloseEndDoc(p)
    \/ CloseDeleteDC(p)
    \/ SetStop(p)

CWStep(p, w) ==
    \/ CWCheck(p, w)
    \/ CWGet(p, w)
    \/ CWTimeout(p, w)
    \/ CWConverted(p, w)
    \/ CWConvertFailed(p, w)
    \/ CWStatsLock(p, w)
    \/ CWCount(p, w)
    \/ CWTaskDone(p, w)

PWStep(p, j) ==
    \/ PWCheck(p, j)
    \/ PWGet(p, j)
    \/ PWTimeout(p, j)
    \/ PWDrain(p, j)
    \/ PWTaskDone(p, j)
    \/ PWStatsLock(p, j)
    \/ PWPrinted(p, j)
    \/ PWFailed(p, j)
    \/ EmitLock(p, j)
    \/ EmitCreateDC(p, j)
    \/ EmitStartDoc(p, j)
    \/ EmitStartPage(p, j)
    \/ EmitDraw(p, j)
    \/ EmitEndPage(p, j)
    \/ EmitEndDoc(p, j)
    \/ EmitDeleteDC(p, j)
    \/ EmitAbortDoc(p, j)
    \/ EmitAbortDeleteDC(p, j)

Next ==
    \E p \in Printers :
        \/ MainStep(p)
        \/ \E w \in BagToSet(cw[p]) : CWStep(p, w)
        \/ \E j \in Jobs : PWStep(p, j)

Spec == Init /\ [][Next]_vars

\* Every started thread keeps running: the coordinator, the convert workers
\* and the print workers are operating-system threads, none of them starved.
Fairness ==
    \A p \in Printers :
        /\ WF_vars(MainStep(p))
        /\ WF_vars(\E w \in BagToSet(cw[p]) : CWStep(p, w))
        /\ \A j \in Jobs : WF_vars(PWStep(p, j))

FairSpec == Init /\ [][Next]_vars /\ Fairness

SpecFolder == InitFolder /\ [][Next]_vars

\* The print server: the requests' handlers and threads beside the pipelines.
ServerStep(p) ==
    \/ PrintAsync(p)
    \/ PrintAsyncNotFound(p)
    \/ JobPrinting(p)
    \/ JobCompleted(p)
    \/ JobFailed(p)

NextServer == Next \/ \E p \in Printers : ServerStep(p)

SpecServer == InitServer /\ [][Next]_vars

SpecAsync == InitAsync /\ [][NextServer]_vars

\* main() with a user who may press Ctrl-C while the job is waited for.
NextCancel == Next \/ \E p \in Printers : Interrupt(p) \/ ProcessExit(p)

SpecCancel == Init /\ [][NextCancel]_vars

SpecScale == InitScale /\ [][Next]_vars

SpecPanel == InitPanel /\ [][PanelStep]_vars

\* ------------------------------------------------------ observations
Returned(p) == main_pc[p] = "returned"

\* Every device call issued so far returned without an error.
AllOk(p) == \A i \in 1 .. Len(device_calls[p]) : device_calls[p][i].ok

\* The job and page calls of the device (beginJob .. endJob, abortJob).
JobCallNames == {"StartDoc", "StartPage", "Draw", "EndPage", "EndDoc", "AbortDoc"}
IsJobCall(c) == c.call \in JobCallNames
JobCalls(p) == SelectSeq(device_calls[p], IsJobCall)
CallNames(calls) == [i \in 1 .. Len(calls) |-> calls[i].call]

\* Successful calls of the given names.
Succeeded(p, names) ==
    {i \in 1 .. Len(device_calls[p]) :
        device_calls[p][i].call \in names /\ device_calls[p][i].ok}
Opens(p) == Cardinality(Succeeded(p, {"StartDoc"}))
Closes(p) == Cardinality(Succeeded(p, {"EndDoc", "AbortDoc"}))
SessionOpen(p) == Opens(p) > Closes(p)

IsPrefix(s, t) == Len(s) <= Len(t) /\ \A i \in 1 .. Len(s) : s[i] = t[i]

\* beginJob, then beginPage/drawImage/endPage for each of n pages, then endJob.
PageCalls(n) ==
    [i \in 1 .. 3 * n |->
        IF i % 3 = 1 THEN "StartPage" ELSE IF i % 3 = 2 THEN "Draw" ELSE "EndPage"]
ExpectedTrace(n) == <<"StartDoc">> \o PageCalls(n) \o <<"EndDoc">>

HandedPages(p) == {handed[p][i].img.page : i \in 1 .. Len(handed[p])}
FailedPages(p) == {t.page : t \in conv_failed[p]}

\* ------------------------------------------------------------ claims
\* C1: within one print_pdf job the pages handed to the emitter are, at every
\* moment, exactly 1, 2, ..., k for some k <= N: ascending from 1, no gap, no
\* repeat, whatever the order in which the conversions complete.
C1_HandedInOrder ==
    \A p \in Printers :
        /\ Len(handed[p]) <= total[p]
        /\ \A i \in 1 .. Len(handed[p]) :
              handed[p][i].page = i /\ handed[p][i].img.page = i

\* A later page is waiting in the reorder buffer while earlier pages are emitted.
C1_Witness ==
    \E p \in Printers :
        /\ Len(handed[p]) >= 2
        /\ \E b \in pw[p][1].buffer : b.page > pw[p][1].next_page

\* C2: when every conversion and every emission of an N-page job succeeds,
\* print_pdf returns with all N pages emitted in the order 1..N and with
\* printed = converted = total = N.
C2_AllPagesEmitted ==
    \A p \in Printers :
        (Returned(p) /\ conv_failed[p] = {} /\ AllOk(p)) =>
            /\ Len(handed[p]) = total[p]
            /\ \A i \in 1 .. Len(handed[p]) : handed[p][i].img.page = i
            /\ printed[p] = total[p]
            /\ converted[p] = total[p]

C2_Witness ==
    \E p \in Printers :
        /\ Returned(p) /\ conv_failed[p] = {} /\ AllOk(p)
        /\ threads[p] >= 2 /\ total[p] >= 3
        /\ printed[p] = total[p]

\* C3: when the conversion of exactly one page k fails and nothing else does,
\* every other page of the document has been emitted when print_pdf returns.
C3_OtherPagesEmitted ==
    \A p \in Printers :
        (Returned(p) /\ AllOk(p) /\ Cardinality(conv_failed[p]) = 1) =>
            HandedPages(p) = (1 .. total[p]) \ FailedPages(p)

\* C4: when print_pdf reports the job complete, every page was either emitted
\* or recorded as failed: printed plus the failed pages equals total.
C4_AllPagesAccounted ==
    \A p \in Printers :
        Returned(p) =>
            printed[p] + Cardinality(conv_failed[p]) + Cardinality(emit_failed[p])
                = total[p]

\* C5: a print_pdf call that started its workers with threads >= 1 eventually
\* returns, whatever conversions and device calls fail.
C5_PrintPdfReturns ==
    \A p \in Printers :
        (main_pc[p] = "start_workers" /\ threads[p] >= 1) ~> Returned(p)

\* A job with a failed conversion and a failed device call has returned.
C5_Witness ==
    \E p \in Printers :
        /\ Returned(p) /\ threads[p] >= 2
        /\ conv_failed[p] /= {} /\ ~AllOk(p)

\* C6: in a job where every conversion and every device call succeeds, the
\* job and page calls issued so far are a prefix of StartDoc, (StartPage,
\* Draw, EndPage) for pages 1..N, EndDoc, and the whole of it at the return.
C6_DeviceTrace ==
    \A p \in Printers :
        (conv_failed[p] = {} /\ AllOk(p)) =>
            /\ IsPrefix(CallNames(JobCalls(p)), ExpectedTrace(total[p]))
            /\ Returned(p) => CallNames(JobCalls(p)) = ExpectedTrace(total[p])

C6_Witness ==
    \E p \in Printers :
        /\ Returned(p) /\ conv_failed[p] = {} /\ AllOk(p)
        /\ total[p] >= 2
        /\ CallNames(JobCalls(p)) = ExpectedTrace(total[p])

\* C7: whenever print_pdf returns normally printer_dc is None and every
\* successful StartDoc is followed by an EndDoc or an AbortDoc call; when no
\* device call failed, the session is closed on the device.
C7_NoSessionLeftOpen ==
    \A p \in Printers :
        main_pc[p] \in {"returned", "returned_early"} =>
            /\ printer_dc[p] = None
            /\ \A i \in Succeeded(p, {"StartDoc"}) :
                  \E k \in (i + 1) .. Len(device_calls[p]) :
                      device_calls[p][k].call \in {"EndDoc", "AbortDoc"}
            /\ AllOk(p) => ~SessionOpen(p)

\* The session was opened, a conversion failed before the last page was
\* reached, and print_pdf has returned.
C7_Witness ==
    \E p \in Printers :
        /\ Returned(p) /\ Opens(p) = 1
        /\ conv_failed[p] /= {}
        /\ Len(handed[p]) < total[p]

\* C8: in any job the session is opened at most once and, once opened, is
\* closed at most once (by EndDoc or by AbortDoc, not both) and exactly once
\* by the time print_pdf returns.
C8_ClosedExactlyOnce ==
    \A p \in Printers :
        /\ Opens(p) <= 1
        /\ Opens(p) = 1 => Closes(p) <= 1
        /\ (Returned(p) /\ Opens(p) = 1) => Closes(p) = 1

\* The threads that are between taking print_lock and releasing it.
DevicePcs == {"create", "startdoc", "startpage", "draw", "endpage", "enddoc",
              "deletedc", "cleanup", "abort_deletedc"}
InDevice(p) ==
    {PW(j) : j \in {k \in Jobs : pw[p][k].pc \in DevicePcs}}
        \cup (IF main_pc[p] \in {"close_enddoc", "close_deletedc"} THEN {MAIN} ELSE {})

\* C9: at most one thread at a time executes device calls of an instance:
\* page emissions never overlap each other nor the coordinator's final close.
C9_OneThreadOnDevice ==
    \A p \in Printers : Cardinality(InDevice(p)) <= 1

\* A print worker waits for print_lock while another thread is on the device.
C9_Witness ==
    \E p \in Printers :
        \E j \in Jobs : pw[p][j].pc = "lock" /\ InDevice(p) /= {}

\* C10: two jobs for the same physical printer, served by two instances at
\* the same time, never both have a job open on the device.
C10_OneJobOnPrinter ==
    \A p, q \in Printers :
        (p /= q /\ printer_name[p] = printer_name[q]) =>
            ~(SessionOpen(p) /\ SessionOpen(q))

\* The job's session failed to open: CreatePrinterDC or StartDoc raised.
OpenFailed(p) ==
    \E i \in 1 .. Len(device_calls[p]) :
        device_calls[p][i].call \in {"CreatePrinterDC", "StartDoc"}
            /\ ~device_calls[p][i].ok

\* The page calls (beginPage, drawImage, endPage) among the calls issued.
PageCallNames == {"StartPage", "Draw", "EndPage"}
IsPageCall(c) == c.call \in PageCallNames
PageCallsIssued(calls) == Len(SelectSeq(calls, IsPageCall))

\* C11: when the session fails to open (CreatePrinterDC or StartDoc raises on
\* page 1), no StartPage, Draw or EndPage is issued for any page of the job and
\* print_pdf does not end as a normal completion.
C11_OpenFailureFailsJob ==
    \A p \in Printers :
        OpenFailed(p) =>
            /\ PageCallsIssued(device_calls[p]) = 0
            /\ ~Returned(p)

\* C12: whenever _print_image_working leaves by an exception, the session has
\* been aborted and closed first: printer_dc is None and no job is left open
\* on the device.
C12_ErrorExitClosesSession ==
    \A p \in Printers :
        \A j \in Jobs :
            pw[p][j].pc = "failed" =>
                printer_dc[p] = None /\ ~SessionOpen(p)

\* C13: once the emission of a page has raised, no StartPage, Draw or EndPage
\* is issued for any later page of the same job.
C13_EmissionStopsAfterError ==
    [][\A p \in Printers :
          (emit_failed[p] /= {} /\ job_no'[p] = job_no[p]) =>
              PageCallsIssued(device_calls'[p]) = PageCallsIssued(device_calls[p])]_vars

\* C14: a /print-async job whose session failed to open does not end as a
\* normal completion: print_pdf does not return normally and the job's status
\* is never 'completed'.
C14_FatalErrorReported ==
    \A p \in Printers :
        (OpenFailed(p) /\ srv_pc[p] = "done") =>
            /\ ~Returned(p)
            /\ active_jobs[job_id[p]].status /= "completed"

\* The page tasks of the current job, and those a convert worker holds.
JobTasks(p) == {Task(job_no[p], n) : n \in 1 .. total[p]}
Holding(p) ==
    {w \in BagToSet(cw[p]) : w.pc \in {"convert", "count", "counting", "task_done"}}
Queued(p) == {job_queue[p][i] : i \in 1 .. Len(job_queue[p])}

\* C15: every page task is taken by one convert worker only and passed to
\* convert_from_path once: no task is rasterized twice, no two workers hold the
\* same task, a task a worker holds or that failed is not in the queue again,
\* and when print_pdf returns every page 1..N has been rasterized exactly once.
C15_EachTaskOnce ==
    \A p \in Printers :
        /\ \A t \in BagToSet(rasterized[p]) : CopiesIn(t, rasterized[p]) = 1
        /\ \A w \in Holding(p) :
              /\ CopiesIn(w, cw[p]) = 1
              /\ \A v \in Holding(p) : v.task = w.task => v = w
              /\ w.task \notin Queued(p)
              /\ w.pc = "convert" => ~BagIn(w.task, rasterized[p])
        /\ \A t \in conv_failed[p] : t \notin Queued(p) /\ BagIn(t, rasterized[p])
        /\ Returned(p) => BagToSet(rasterized[p]) = JobTasks(p)

\* Two workers shared the pages of a job in which a conversion failed.
C15_Witness ==
    \E p \in Printers :
        /\ Returned(p) /\ threads[p] >= 2 /\ total[p] >= 3
        /\ conv_failed[p] /= {}
        /\ BagToSet(rasterized[p]) = JobTasks(p)

\* C16: when print_worker takes a result whose page number it has already
\* emitted (page < next_page) or already holds in its buffer, the buffer stays
\* as it was: the duplicate is ignored.
C16_DuplicateIsNoOp ==
    [][\A p \in Printers :
          \A j \in Jobs :
              (pw[p][j].pc = "get" /\ pw'[p][j].pc = "drain") =>
                  \A img \in image_queue[p] \ image_queue'[p] :
                      (\/ img.page < pw[p][j].next_page
                       \/ \E b \in pw[p][j].buffer : b.page = img.page) =>
                          pw'[p][j].buffer = pw[p][j].buffer]_vars

\* C17: when a job is cancelled by Ctrl-C while print_pdf waits on its queues
\* and the program has ended, a session that was opened has had its EndDoc or
\* AbortDoc issued.
C17_ClosedAfterCancel ==
    \A p \in Printers :
        main_pc[p] = "exited" =>
            \A i \in Succeeded(p, {"StartDoc"}) :
                \E k \in (i + 1) .. Len(device_calls[p]) :
                    device_calls[p][k].call \in {"EndDoc", "AbortDoc"}

\* C18: a print_pdf call for a path that does not exist or a document that
\* cannot be read ends with an error raised to its caller, and it starts no
\* worker, queues no task, makes no device call and leaves the counters alone.
C18_BadInputRaises ==
    [][\A p \in Printers :
          (/\ CallerReady(p)
           /\ Head(requests[p]).kind \in {"missing", "unreadable"}
           /\ requests'[p] = Tail(requests[p])
           /\ srv_pc'[p] = srv_pc[p]) =>
              /\ main_pc'[p] = "raised"
              /\ cw'[p] = cw[p] /\ pw'[p] = pw[p]
              /\ job_queue'[p] = job_queue[p]
              /\ device_calls'[p] = device_calls[p] /\ printer_dc'[p] = printer_dc[p]
              /\ converted'[p] = converted[p] /\ printed'[p] = printed[p]]_vars

\* C19: the rectangle drawn lies inside the printable area, is centered (the
\* two margins of each direction differ by at most one pixel), is scaled by
\* min(W / imgW, H / imgH) up to the rounding of int() (never more than the
\* smaller ratio, less than two pixels below it), and reaches across the
\* width or the height up to one pixel.
C19_RectFitsAndCentered ==
    \A p \in Printers :
        rect[p] /= NoRect =>
            LET r  == rect[p]
                iw == size[p].img_width
                ih == size[p].img_height
                w  == size[p].printer_width
                h  == size[p].printer_height
                nw == r[3] - r[1]
                nh == r[4] - r[2]
            IN  /\ 0 <= r[1] /\ 0 <= r[2] /\ r[3] <= w /\ r[4] <= h
                /\ nw >= 0 /\ nh >= 0
                /\ (w - r[3]) - r[1] \in {-1, 0, 1}
                /\ (h - r[4]) - r[2] \in {-1, 0, 1}
                /\ nw * ih <= iw * h /\ nh * iw <= ih * w
                /\ (nw + 2) > w \/ (nw + 2) * ih > iw * h
                /\ (nh + 2) > h \/ (nh + 2) * iw > ih * w
                /\ w - nw <= 1 \/ h - nh <= 1

\* A wide image on a taller page is drawn with a margin above and below it.
C19_Witness ==
    \E p \in Printers :
        /\ rect[p] /= NoRect
        /\ size[p].img_width = 3 /\ size[p].img_height = 1
        /\ rect[p][2] >= 1
        /\ rect[p][3] - rect[p][1] >= size[p].printer_width - 1

\* C20: an instance never has two print workers alive at once, and a print
\* worker only ever holds page results of the job that started it.
C20_OneConsumer ==
    \A p \in Printers :
        /\ Cardinality({j \in Jobs : pw[p][j].pc \notin {"none", "exited"}}) <= 1
        /\ \A j \in Jobs : \A b \in pw[p][j].buffer : b.job = j

\* C21: the workers of a finished job end, so that an instance never has more
\* live convert workers than its `threads`, also across consecutive print_pdf
\* calls.
C21_WorkersBounded ==
    \A p \in Printers : BagCardinality(cw[p]) <= threads[p]

\* C22: in every step of a print worker the pages in its buffer are >=
\* next_page, next_page stays or grows by one, and no image is handed to the
\* emitter twice.
C22_ReorderInvariant ==
    [][\A p \in Printers :
          /\ \A j \in Jobs :
                /\ \A b \in pw'[p][j].buffer : b.page >= pw'[p][j].next_page
                /\ pw'[p][j].next_page >= pw[p][j].next_page
                /\ pw'[p][j].next_page <= pw[p][j].next_page + 1
          /\ \A i, k \in 1 .. Len(handed'[p]) :
                i /= k => handed'[p][i].img /= handed'[p][k].img]_vars

\* The coordinator is at or past its final close.
ClosePcs == {"close", "close_enddoc", "close_deletedc", "set_stop", "returned"}
Emitting(p) == {j \in Jobs : pw[p][j].pc \notin {"none", "check", "get", "exited"}}

\* C23: when the coordinator reaches its final close both queues have
\* drained: no task is queued or in flight, converted plus the failed pages
\* is total, no image waits in image_queue, and no page is being emitted or
\* will be from then on.
C23_CloseAfterDrain ==
    \A p \in Printers :
        main_pc[p] \in ClosePcs =>
            /\ job_queue[p] = <<>> /\ Holding(p) = {}
            /\ converted[p] + Cardinality(conv_failed[p]) = total[p]
            /\ image_queue[p] = {}
            /\ Emitting(p) = {}

\* The final close finds the session open: a conversion failed, so the last
\* page was never emitted; two workers shared the conversions.
C23_Witness ==
    \E p \in Printers :
        /\ main_pc[p] = "close_enddoc"
        /\ threads[p] >= 2 /\ total[p] >= 2
        /\ conv_failed[p] /= {} /\ converted[p] >= 1

\* C26: printed <= converted <= total in every state of a job.
C26_CountersOrdered ==
    \A p \in Printers : printed[p] <= converted[p] /\ converted[p] <= total[p]

\* C27: a print_pdf call that started its workers eventually returns or
\* raises, whatever the thread count.
C27_ReturnsForAnyThreads ==
    \A p \in Printers :
        (main_pc[p] = "start_workers") ~> (main_pc[p] \in {"returned", "raised"})

\* C28: two requests never share a job_id, and the status under a job_id only
\* moves from queued to printing and from printing to completed or failed.
C28_OwnJobRecord ==
    [][/\ \A p, q \in Printers :
             (p /= q /\ job_id'[p] /= 0 /\ job_id'[q] /= 0) => job_id'[p] /= job_id'[q]
       /\ \A i \in JobIds :
             \/ active_jobs'[i].status = active_jobs[i].status
             \/ <<active_jobs[i].status, active_jobs'[i].status>> \in
                   {<<"absent", "queued">>, <<"queued", "printing">>,
                    <<"printing", "completed">>, <<"printing", "failed">>}]_vars

\* C24: a convert worker takes no task after its job's stop_flag.set(): the
\* tasks a worker holds are tasks of the print_pdf call that started it.
C24_NoTaskAfterStop ==
    \A p \in Printers :
        \A w \in Holding(p) : w.task.job = w.job

\* C25: converted, printed and total are written only by a thread that holds
\* stats_lock.
C25_CountersUnderLock ==
    [][\A p \in Printers :
          (\/ converted'[p] /= converted[p]
           \/ printed'[p] /= printed[p]
           \/ total'[p] /= total[p]) => stats_lock[p] /= FREE]_vars

\* The children of the panel that are running.
Running ==
    {f \in {"print_server_process", "whatsapp_bot_process"} : panel[f] = "alive"}
        \cup panel.orphans

\* C29: once stop_servers or on_closing has completed, no child process the
\* panel launched is running.
C29_NoChildAfterStop ==
    panel.last_handler \in {"stop_servers", "on_closing"} => Running = {}

\* C30: whenever the start thread is not at work and the window is open,
\* either the panel is stopped with START enabled and STOP disabled, or the
\* servers are running and STOP is enabled.
C30_PanelNotStuck ==
    (panel.start_pc = "idle" /\ panel.window = "open") =>
        \/ panel.start_button = "normal" /\ panel.stop_button = "disabled"
              /\ ~panel.is_running
        \/ panel.is_running /\ panel.stop_button = "normal"

====
